---- MODULE Spec2Model ----
(***************************************************************************)
(* Model of the Redshift MCP server (src/src/redshift_mcp/server.py) and   *)
(* of the Gemini-driven MCP client (src/client/client.py).                 *)
(*                                                                         *)
(* Server: one psycopg2 connection shared by every request handler.  The   *)
(* handlers are asyncio coroutines: the code between two awaits runs       *)
(* without interleaving, so every action below is one such segment.        *)
(***************************************************************************)
EXTENDS Integers, Sequences, FiniteSets, TLC

VARIABLES
    txn,        \* transaction state of the shared connection `conn`
    connLog,    \* statements the requests issued on `conn`, in order (history)
    schema_name,    \* create_server's schema_name, which the handlers close over
    startup,    \* create_server: its arguments, sys.argv, os.environ and where it is
    startLog,   \* statements create_server issued on `conn`, in order (history)
    nextCall,   \* number of requests received so far
    sOp,        \* per request: the handler it runs
    sPc,        \* per request: where the handler is suspended
    sSql,       \* per request: the sql argument (query)
    sTable,     \* per request: the table_name argument (get_table_schema)
    sUri,       \* per request: the uri argument (resolve_resource)
    sOut,       \* per request: what the handler returned or raised
    is_connected,       \* MCPClient.is_connected
    session,            \* MCPClient.session: 0 is None, else the session's number
    exit_stack,         \* MCPClient.exit_stack: the contexts entered, in order
    available_tools,    \* MCPClient.available_tools: the names of the catalog
    cPc,        \* where the chat loop is
    turns,      \* number of inputs read
    connects,   \* number of connect_to_server calls
    turnInput,      \* this turn: the input line
    turnConnected,  \* this turn: is_connected when the line was read
    turnSession,    \* this turn: session when the line was read
    turnLlm,        \* this turn: number of generate_content calls
    turnRpc,        \* this turn: the requests sent to the server
    turnReply,      \* this turn: the text the LLM returned
    turnCall,       \* this turn: tool name and arguments given to call_tool
    turnResult,     \* this turn: what the loop printed
    turnFaults,     \* this turn: the steps that failed (history)
    turnResources,  \* this turn: `resources` of process_query
    turnPrompt,     \* this turn: the prompt given to generate_content
    initialized     \* the sessions whose initialize() returned (history)

configVars == <<schema_name, startup, startLog>>

serverVars == <<txn, connLog, nextCall, sOp, sPc, sSql, sTable, sUri, sOut, configVars>>

clientVars == <<is_connected, session, exit_stack, available_tools, cPc, turns,
                connects, turnInput, turnConnected, turnLlm, turnRpc, turnReply,
                turnCall, turnResult, turnFaults, turnResources, turnPrompt,
                initialized, turnSession>>

vars == <<serverVars, clientVars>>

-----------------------------------------------------------------------------
(* Bounds *)

MaxCalls == 3
MaxUriLen == 6
MaxTurns == 3
MaxConnects == 2
MaxReplyLen == 5
MaxTools == 2
MaxResources == 2

Calls == 1..MaxCalls

-----------------------------------------------------------------------------
(* The database behind `conn` *)

\* the literal create_server falls back to
DefaultSchema == "flatiron_cmdb_nsclc_sdm_latest"

\* the schema the handlers use: the schema_name they close over
ActiveSchema == schema_name

\* netloc of database_url after the credentials, as create_server computes it
resource_netloc == <<"dbhost">>

\* Text is a sequence of atoms; two texts are equal iff the sequences are.
Tables == << <<"orders">>, <<"users">> >>

TableSet == {Tables[i] : i \in 1..Len(Tables)}

ColumnsOf(t) == IF t \in TableSet THEN << <<t, "id">>, <<t, "name">> >> ELSE <<>>

\* SQL texts a caller may send, and what the database does with each: a
\* statement with rows, a statement the database rejects (bad syntax, or a
\* write inside the read-only transaction), a statement without a result set.
SqlInputs == {"SELECT * FROM orders", "SELEC",
              "SET enable_result_cache_for_session TO off"}

\* the statement executes inside a read-only transaction
SqlValid(sql) == sql \in {"SELECT * FROM orders",
                          "SET enable_result_cache_for_session TO off"}

\* the executed statement has a result set, so fetchall() does not raise
SqlHasRows(sql) == sql = "SELECT * FROM orders"

SetSearchPath == [text |-> "SET search_path TO", arg |-> ActiveSchema, valid |-> TRUE]
BeginReadOnly == [text |-> "BEGIN TRANSACTION READ ONLY", arg |-> "", valid |-> TRUE]
Rollback == [text |-> "ROLLBACK", arg |-> "", valid |-> TRUE]
UserSql(sql) == [text |-> "SQL", arg |-> sql, valid |-> SqlValid(sql)]
SelectColumns == [text |-> "SELECT information_schema.columns", arg |-> ActiveSchema, valid |-> TRUE]
SelectTables == [text |-> "SELECT information_schema.tables", arg |-> ActiveSchema, valid |-> TRUE]
SelectTableColumns(t) == [text |-> "SELECT information_schema.columns WHERE table_name", arg |-> t, valid |-> TRUE]

\* cursor.execute on a psycopg2 connection that is not in autocommit mode:
\* the first statement opens a transaction, a failed statement aborts it,
\* every statement but ROLLBACK fails in an aborted transaction.
ExecOk(t, stmt) == stmt.text = "ROLLBACK" \/ (t # "aborted" /\ stmt.valid)

ExecTxn(t, stmt) ==
    IF stmt.text = "ROLLBACK" THEN "idle"
    ELSE IF t = "aborted" THEN "aborted"
    ELSE IF stmt.valid THEN "intrans" ELSE "aborted"

\* Consecutive cursor.execute calls: the first one that raises ends the run.
RECURSIVE RunStmts(_, _, _, _)
RunStmts(c, stmts, t, log) ==
    IF stmts = <<>> THEN [ok |-> TRUE, txn |-> t, log |-> log]
    ELSE LET s == Head(stmts)
             entry == [call |-> c, text |-> s.text, arg |-> s.arg, ok |-> ExecOk(t, s)]
         IN IF ExecOk(t, s)
            THEN RunStmts(c, Tail(stmts), ExecTxn(t, s), Append(log, entry))
            ELSE [ok |-> FALSE, txn |-> ExecTxn(t, s), log |-> Append(log, entry)]

-----------------------------------------------------------------------------
(* Results *)

Pending == [kind |-> "pending"]
DbError == [kind |-> "error"]
InvalidURI == [kind |-> "ValueError"]
Rows(sql) == [kind |-> "rows", of |-> sql]
ColumnsPayload(t) == [kind |-> "columns", columns |-> ColumnsOf(t)]

TableUri(t) == resource_netloc \o <<"/">> \o t \o <<"/", "schema">>

TablesPayload == [kind |-> "resources",
                  resources |-> [i \in 1..Len(Tables) |-> TableUri(Tables[i])]]

SchemaPayload == [kind |-> "schema", schema |-> ActiveSchema,
                  columns |-> [i \in 1..Len(Tables) |-> ColumnsOf(Tables[i])]]

-----------------------------------------------------------------------------
(* URIs.  A URI is the scheme prefix redshift:// followed by a sequence of  *)
(* tokens: "/" and "?" are the delimiters urlparse looks for, every other   *)
(* token is a run of ordinary characters.                                   *)

UriAtoms == {"tables", "schema", "orders", "dbhost", "columns"}

UriTokens == UriAtoms \cup {"/", "?"}

\* every text of at most n tokens of S
SeqsUpTo(S, n) == UNION {[1..k -> S] : k \in 0..n}

AllUris == SeqsUpTo(UriTokens, MaxUriLen)

\* index of the first token of u that is in D, Len(u) + 1 when there is none
RECURSIVE FirstIn(_, _, _)
FirstIn(u, D, i) ==
    IF i > Len(u) THEN Len(u) + 1
    ELSE IF u[i] \in D THEN i ELSE FirstIn(u, D, i + 1)

\* urlparse(uri): the authority runs to the first "/" or "?", the path from
\* there to the first "?"
Urlparse(u) ==
    LET e == FirstIn(u, {"/", "?"}, 1)
        rest == SubSeq(u, e, Len(u))
        q == FirstIn(rest, {"?"}, 1)
    IN [netloc |-> SubSeq(u, 1, e - 1), path |-> SubSeq(rest, 1, q - 1)]

\* str.strip("/")
RECURSIVE StripSlashes(_)
StripSlashes(p) ==
    IF p = <<>> THEN p
    ELSE IF Head(p) = "/" THEN StripSlashes(Tail(p))
    ELSE IF p[Len(p)] = "/" THEN StripSlashes(SubSeq(p, 1, Len(p) - 1))
    ELSE p

\* str.split("/"): the empty text splits into one empty segment
RECURSIVE SplitSlash(_)
SplitSlash(p) ==
    LET e == FirstIn(p, {"/"}, 1)
    IN IF e > Len(p) THEN <<p>>
       ELSE <<SubSeq(p, 1, e - 1)>> \o SplitSlash(SubSeq(p, e + 1, Len(p)))

\* as ResolveTarget, but the path is split without stripping its slashes
M_ResolveTarget(u) ==
    LET parsed == Urlparse(u)
        path_parts == SplitSlash(parsed.path)
    IN IF parsed.netloc = <<"tables">>
       THEN [kind |-> "list_tables", table |-> <<>>]
       ELSE IF Len(path_parts) # 2 \/ path_parts[2] # <<"schema">>
       THEN [kind |-> "invalid", table |-> <<>>]
       ELSE [kind |-> "get_table_schema", table |-> path_parts[1]]

\* the branch resolve_resource takes for a uri
ResolveTarget(u) ==
    LET parsed == Urlparse(u)
        path_parts == SplitSlash(StripSlashes(parsed.path))
    IN IF parsed.netloc = <<"tables">>
       THEN [kind |-> "list_tables", table |-> <<>>]
       ELSE IF Len(path_parts) # 2 \/ path_parts[2] # <<"schema">>
       THEN [kind |-> "invalid", table |-> <<>>]
       ELSE [kind |-> "get_table_schema", table |-> path_parts[1]]

-----------------------------------------------------------------------------
(* Server handlers.  Each operator is the synchronous part of a handler,   *)
(* applied to the connection state it finds.                               *)

\* what the handlers listed in the resource registry are addressed by
SchemaResourceUri == <<"schema">>
TablesResourceUri == <<"tables">>

Ran(r, out) == [txn |-> r.txn, log |-> r.log, out |-> IF r.ok THEN out ELSE DbError]

list_schema(c, t, log) ==
    Ran(RunStmts(c, <<SetSearchPath, SelectColumns>>, t, log), SchemaPayload)

list_tables(c, t, log) ==
    Ran(RunStmts(c, <<SetSearchPath, SelectTables>>, t, log), TablesPayload)

\* the part of get_table_schema after `await ctx.info`
get_table_schema(c, table_name, t, log) ==
    Ran(RunStmts(c, <<SetSearchPath, SelectTableColumns(table_name)>>, t, log),
        ColumnsPayload(table_name))

resolve_resource(c, uri, t, log) ==
    LET target == ResolveTarget(uri)
    IN CASE target.kind = "list_tables" -> list_tables(c, t, log)
         [] target.kind = "invalid" -> [txn |-> t, log |-> log, out |-> InvalidURI]
         [] OTHER -> get_table_schema(c, target.table, t, log)

\* variant: the transaction is opened before the search path is set
M_QueryTryStmts(sql) == <<BeginReadOnly, SetSearchPath, UserSql(sql)>>

\* the statements of query's try block, in the order the code issues them
QueryTryStmts(sql) == <<SetSearchPath, BeginReadOnly, UserSql(sql)>>

\* variant: no finally block
M_QueryFinallyStmts == <<>>

\* the statements of query's finally block
QueryFinallyStmts == <<Rollback>>

\* query runs its await ctx.error while the cursor is still open
QueryErrorSuspends == TRUE

-----------------------------------------------------------------------------
(* Server start: create_server *)

None == "<None>"

DatabaseUrl == "postgresql://user:pw@dbhost/db"

\* the inputs of create_server: its two parameters, sys.argv, and the two
\* variables of os.environ it reads (after load_dotenv)
StartupInputs(url, schema, argv, envUrl, envSchema) ==
    [database_url |-> url, schema_name |-> schema, argv |-> argv,
     DATABASE_URL |-> envUrl, DEFAULT_SCHEMA |-> envSchema]

\* `not x` for a parameter that is None or a string
Falsy(x) == x \in {None, ""}

\* the database_url create_server works with
ChooseUrl(in) ==
    IF ~Falsy(in.database_url) THEN in.database_url
    ELSE IF Len(in.argv) > 1 THEN in.argv[2]
    ELSE in.DATABASE_URL

\* the schema_name create_server works with: sys.argv[2] is in.argv[3]
ChooseSchema(in) ==
    IF Falsy(in.schema_name) /\ Len(in.argv) > 2 THEN in.argv[3]
    ELSE IF in.DEFAULT_SCHEMA = None THEN DefaultSchema ELSE in.DEFAULT_SCHEMA

SetSearchPathTo(schema) == [text |-> "SET search_path TO", arg |-> schema, valid |-> TRUE]
SetSearchPathEq(schema) == [text |-> "SET search_path =", arg |-> schema, valid |-> TRUE]
SelectCurrentSchema == [text |-> "SELECT current_schema()", arg |-> "", valid |-> TRUE]

\* the statements of create_server's try block when current_schema() answers
\* `effective` to the first SELECT
StartupStmts(schema, effective) ==
    <<SetSearchPathTo(schema), SelectCurrentSchema>>
        \o (IF effective # schema
            THEN <<SetSearchPathEq(schema), SelectCurrentSchema>> ELSE <<>>)

\* a server started without arguments, DATABASE_URL set in the environment
DefaultInputs == StartupInputs(None, None, <<"server.py">>, DatabaseUrl, None)

\* create_server(database_url, schema_name): the connection may fail, and
\* current_schema() may answer the chosen schema or the provider's default
CreateServer(connected, effective) ==
    /\ startup.pc = "new"
    /\ LET url == ChooseUrl(startup.in)
           schema == ChooseSchema(startup.in)
           r == RunStmts(0, StartupStmts(schema, effective), "idle", <<>>)
       IN IF Falsy(url)
          THEN /\ startup' = [startup EXCEPT !.pc = "exit"]
               /\ UNCHANGED <<schema_name, startLog, txn>>
          ELSE /\ schema_name' = schema
               /\ effective \in {schema, "public"}
               /\ IF connected
                  THEN /\ startup' = [startup EXCEPT !.pc = "serving"]
                       /\ startLog' = r.log
                       /\ txn' = r.txn
                  ELSE /\ startup' = [startup EXCEPT !.pc = "exit"]
                       /\ UNCHANGED <<startLog, txn>>
    /\ UNCHANGED <<connLog, nextCall, sOp, sPc, sSql, sTable, sUri, sOut>>
    /\ UNCHANGED clientVars

-----------------------------------------------------------------------------
(* Server state machine *)

InitRequests ==
    /\ connLog = <<>>
    /\ nextCall = 0
    /\ sOp = [c \in Calls |-> "none"]
    /\ sPc = [c \in Calls |-> "new"]
    /\ sSql = [c \in Calls |-> ""]
    /\ sTable = [c \in Calls |-> <<>>]
    /\ sUri = [c \in Calls |-> <<>>]
    /\ sOut = [c \in Calls |-> Pending]

\* the state create_server leaves for DefaultInputs
InitServer ==
    /\ startup = [pc |-> "serving", in |-> DefaultInputs]
    /\ schema_name = ChooseSchema(DefaultInputs)
    /\ startLog = RunStmts(0, StartupStmts(DefaultSchema, DefaultSchema), "idle", <<>>).log
    /\ txn = "intrans"
    /\ InitRequests

Receive(c, op, pc) ==
    /\ startup.pc = "serving"
    /\ c = nextCall + 1
    /\ c \in Calls
    /\ nextCall' = c
    /\ sOp' = [sOp EXCEPT ![c] = op]
    /\ sPc' = [sPc EXCEPT ![c] = pc]

Finish(c, r) ==
    /\ txn' = r.txn
    /\ connLog' = r.log
    /\ sOut' = [sOut EXCEPT ![c] = r.out]

\* query(sql, ctx) up to `await ctx.info`
QueryStart(c, sql) ==
    /\ Receive(c, "query", "info")
    /\ sSql' = [sSql EXCEPT ![c] = sql]
    /\ UNCHANGED <<txn, connLog, sTable, sUri, sOut>>
    /\ UNCHANGED configVars
    /\ UNCHANGED clientVars

\* query from the return of ctx.info: the try block, then either the finally
\* block and the return, or the except block up to `await ctx.error`
QueryBody(c) ==
    /\ sOp[c] = "query" /\ sPc[c] = "info"
    /\ LET r == RunStmts(c, QueryTryStmts(sSql[c]), txn, connLog)
           fetched == r.ok /\ SqlHasRows(sSql[c])
           fin == RunStmts(c, QueryFinallyStmts, r.txn, r.log)
       IN IF fetched
          THEN /\ Finish(c, [txn |-> fin.txn, log |-> fin.log, out |-> Rows(sSql[c])])
               /\ sPc' = [sPc EXCEPT ![c] = "done"]
          ELSE IF QueryErrorSuspends
          THEN /\ txn' = r.txn
               /\ connLog' = r.log
               /\ sPc' = [sPc EXCEPT ![c] = "error"]
               /\ UNCHANGED sOut
          ELSE /\ Finish(c, [txn |-> fin.txn, log |-> fin.log, out |-> DbError])
               /\ sPc' = [sPc EXCEPT ![c] = "done"]
    /\ UNCHANGED <<nextCall, sOp, sSql, sTable, sUri>>
    /\ UNCHANGED configVars
    /\ UNCHANGED clientVars

\* query from the return of ctx.error: re-raise through the finally block
QueryFinally(c) ==
    /\ sOp[c] = "query" /\ sPc[c] = "error"
    /\ LET fin == RunStmts(c, QueryFinallyStmts, txn, connLog)
       IN Finish(c, [txn |-> fin.txn, log |-> fin.log, out |-> DbError])
    /\ sPc' = [sPc EXCEPT ![c] = "done"]
    /\ UNCHANGED <<nextCall, sOp, sSql, sTable, sUri>>
    /\ UNCHANGED configVars
    /\ UNCHANGED clientVars

\* get_table_schema(table_name, ctx) up to `await ctx.info`
GetTableSchemaStart(c, table_name) ==
    /\ Receive(c, "get_table_schema", "info")
    /\ sTable' = [sTable EXCEPT ![c] = table_name]
    /\ UNCHANGED <<txn, connLog, sSql, sUri, sOut>>
    /\ UNCHANGED configVars
    /\ UNCHANGED clientVars

GetTableSchemaBody(c) ==
    /\ sOp[c] = "get_table_schema" /\ sPc[c] = "info"
    /\ Finish(c, get_table_schema(c, sTable[c], txn, connLog))
    /\ sPc' = [sPc EXCEPT ![c] = "done"]
    /\ UNCHANGED <<nextCall, sOp, sSql, sTable, sUri>>
    /\ UNCHANGED configVars
    /\ UNCHANGED clientVars

\* resolve_resource awaits only coroutines that never suspend
ResolveResource(c, uri) ==
    /\ Receive(c, "resolve_resource", "done")
    /\ sUri' = [sUri EXCEPT ![c] = uri]
    /\ Finish(c, resolve_resource(c, uri, txn, connLog))
    /\ UNCHANGED <<sSql, sTable>>
    /\ UNCHANGED configVars
    /\ UNCHANGED clientVars

ListTables(c) ==
    /\ Receive(c, "list_tables", "done")
    /\ Finish(c, list_tables(c, txn, connLog))
    /\ UNCHANGED <<sSql, sTable, sUri>>
    /\ UNCHANGED configVars
    /\ UNCHANGED clientVars

ListSchema(c) ==
    /\ Receive(c, "list_schema", "done")
    /\ Finish(c, list_schema(c, txn, connLog))
    /\ UNCHANGED <<sSql, sTable, sUri>>
    /\ UNCHANGED configVars
    /\ UNCHANGED clientVars

\* URIs and table names the requests of the server specification carry
ExposedUris == {SchemaResourceUri, TablesResourceUri}
                 \cup {TablesPayload.resources[i] : i \in 1..Len(Tables)}

RequestUris == ExposedUris \cup {<<"dbhost", "/", "orders", "/", "columns">>}

RequestTables == {<<"nosuch">>}

Next ==
    \E c \in Calls :
        \/ \E sql \in SqlInputs : QueryStart(c, sql)
        \/ QueryBody(c)
        \/ QueryFinally(c)
        \/ \E t \in RequestTables : GetTableSchemaStart(c, t)
        \/ GetTableSchemaBody(c)
        \/ \E u \in RequestUris : ResolveResource(c, u)
        \/ ListTables(c)
        \/ ListSchema(c)

\* resolve_resource alone, over every URI up to MaxUriLen tokens
NextResolve == nextCall = 0 /\ \E u \in AllUris : ResolveResource(1, u)

-----------------------------------------------------------------------------
(* Properties of the server *)

\* the statements request c issued on the connection, in order
OwnLog(c) == SelectSeq(connLog, LAMBDA e : e.call = c)

TryPattern == <<"SET search_path TO", "BEGIN TRANSACTION READ ONLY", "SQL">>

\* own[1..m] is the try block of query call c as far as it got: in order,
\* with the caller's sql verbatim, cut short only by a failing statement
TryPrefix(c, own, m) ==
    /\ m \in 1..3
    /\ \A i \in 1..m :
        /\ own[i].text = TryPattern[i]
        /\ own[i].arg = (CASE i = 1 -> ActiveSchema [] i = 2 -> "" [] OTHER -> sSql[c])
        /\ i < m => own[i].ok
    /\ m < 3 => ~own[m].ok

\* C1: every query call issues SET search_path TO <active schema>, BEGIN
\* TRANSACTION READ ONLY and the caller's sql in this order, stops at the
\* first statement that fails, and has issued ROLLBACK as its last statement
\* when it returns, on the success path and on every failure path; it never
\* issues COMMIT; it returns rows only when no statement failed and raises
\* otherwise.
C1_QueryOrderAndRollback ==
    \A c \in Calls : sOp[c] = "query" =>
        LET own == OwnLog(c)
            n == Len(own)
        IN /\ \A i \in 1..n : own[i].text # "COMMIT"
           /\ sPc[c] = "info" => own = <<>>
           /\ sPc[c] = "error" =>
                /\ TryPrefix(c, own, n)
                /\ ~own[n].ok \/ ~SqlHasRows(sSql[c])
                /\ sOut[c] = Pending
           /\ sPc[c] = "done" =>
                /\ n >= 2
                /\ own[n].text = "ROLLBACK"
                /\ TryPrefix(c, own, n - 1)
                /\ sOut[c] \in {Rows(sSql[c]), DbError}
                /\ sOut[c] = Rows(sSql[c]) => n = 4 /\ own[3].ok
                /\ ~own[n - 1].ok => sOut[c] = DbError

\* three returned query calls, one per exit path: the sql succeeded, the sql
\* failed, an earlier statement failed
C1_Witness ==
    \E a, b, c \in Calls :
        /\ sOp[a] = "query" /\ sOp[b] = "query" /\ sOp[c] = "query"
        /\ sPc[a] = "done" /\ sPc[b] = "done" /\ sPc[c] = "done"
        /\ sOut[a] = Rows(sSql[a])
        /\ Len(OwnLog(b)) = 4 /\ ~OwnLog(b)[3].ok
        /\ Len(OwnLog(c)) = 2 /\ ~OwnLog(c)[1].ok

\* connLog[i] is the last statement of a query call that has returned
ReturnOfQuery(i) ==
    LET c == connLog[i].call
    IN /\ sOp[c] = "query"
       /\ sPc[c] = "done"
       /\ \A j \in (i + 1)..Len(connLog) : connLog[j].call # c

\* index in connLog of the first statement of request c, 0 if it has none
FirstOf(c) ==
    IF \E i \in 1..Len(connLog) : connLog[i].call = c
    THEN CHOOSE i \in 1..Len(connLog) :
            /\ connLog[i].call = c
            /\ \A j \in 1..(i - 1) : connLog[j].call # c
    ELSE 0

\* C2: when the last statement on the connection is the last one of a
\* returned query call, whether its sql raised or not, the connection is in
\* no transaction, open or aborted; and a query call with valid sql that
\* comes next on the connection after a returned query call returns its rows.
C2_ConnectionUsableAfterQuery ==
    /\ (connLog # <<>> /\ ReturnOfQuery(Len(connLog))) => txn = "idle"
    /\ \A d \in Calls :
        (/\ sOp[d] = "query" /\ sPc[d] = "done" /\ SqlHasRows(sSql[d])
         /\ FirstOf(d) > 1 /\ ReturnOfQuery(FirstOf(d) - 1))
        => sOut[d] = Rows(sSql[d])

\* a query whose sql raised has returned and the next query returned rows
C2_Witness ==
    \E c, d \in Calls :
        /\ sOp[c] = "query" /\ sPc[c] = "done" /\ sOut[c] = DbError
        /\ Len(OwnLog(c)) = 4 /\ ~OwnLog(c)[3].ok
        /\ sOp[d] = "query" /\ sPc[d] = "done"
        /\ FirstOf(d) > 1 /\ connLog[FirstOf(d) - 1].call = c
        /\ sOut[d] = Rows(sSql[d])

\* C3: between the first statement of a query call and its ROLLBACK no
\* other request issues a statement on the shared connection.
C3_NoStatementInsideQuery ==
    \A i, j, k \in 1..Len(connLog) :
        (/\ i < j /\ j < k
         /\ connLog[i].call = connLog[k].call
         /\ sOp[connLog[i].call] = "query")
        => connLog[j].call = connLog[i].call

AllAtoms(u, lo, hi) == \A i \in lo..hi : u[i] \in UriAtoms

AllSlashes(u, lo, hi) == \A i \in lo..hi : u[i] = "/"

\* the authority of u, the text before the first "/" or "?", is `tables`
AuthorityIsTables(u) ==
    /\ Len(u) >= 1
    /\ u[1] = "tables"
    /\ Len(u) = 1 \/ u[2] \in {"/", "?"}

\* u reads: authority, slashes, a text without "/" that ends with token d
\* and starts after token b, "/", "schema", slashes, and then nothing or a
\* "?" part
AddressesTableAt(u, b, d) ==
    /\ b < d
    /\ d + 2 <= Len(u)
    /\ AllAtoms(u, b + 1, d)
    /\ u[d + 1] = "/"
    /\ u[d + 2] = "schema"
    /\ \E a \in 0..(b - 1) : AllAtoms(u, 1, a) /\ AllSlashes(u, a + 1, b)
    /\ \E e \in (d + 2)..Len(u) :
        /\ AllSlashes(u, d + 3, e)
        /\ e = Len(u) \/ u[e + 1] = "?"

TablesAddressed(u) ==
    {SubSeq(u, q[1] + 1, q[2]) :
        q \in {r \in (1..Len(u)) \X (1..Len(u)) : AddressesTableAt(u, r[1], r[2])}}

\* C4: resolve_resource(uri) returns the list_tables payload when the
\* authority is exactly `tables`, whatever the path; otherwise the result of
\* get_table_schema(t) when the path, surrounding slashes removed, is the
\* two segments t and `schema`, whatever the authority is; otherwise it
\* raises the ValueError.
C4_ResolveDecisionRule ==
    \A c \in Calls : (sOp[c] = "resolve_resource" /\ sPc[c] = "done") =>
        LET u == sUri[c]
            own == OwnLog(c)
        IN IF AuthorityIsTables(u)
           THEN /\ sOut[c] = TablesPayload
                /\ Len(own) = 2 /\ own[2].text = SelectTables.text
           ELSE IF TablesAddressed(u) # {}
           THEN \A t \in TablesAddressed(u) :
                    /\ sOut[c] = ColumnsPayload(t)
                    /\ Len(own) = 2 /\ own[2] = [call |-> c, ok |-> TRUE,
                            text |-> SelectTableColumns(t).text, arg |-> t]
           ELSE sOut[c] = InvalidURI /\ own = <<>>

\* redshift://dbhost/orders/columns has been refused
C4_Witness ==
    \E c \in Calls :
        /\ sOp[c] = "resolve_resource" /\ sPc[c] = "done"
        /\ sUri[c] = <<"dbhost", "/", "orders", "/", "columns">>
        /\ sOut[c] = InvalidURI

\* the resource a URI the server exposes addresses
Addressed(u) ==
    IF u = SchemaResourceUri THEN SchemaPayload
    ELSE IF u = TablesResourceUri THEN TablesPayload
    ELSE ColumnsPayload(CHOOSE t \in TableSet : TableUri(t) = u)

\* C5: for redshift://schema, redshift://tables and every per-table URI that
\* list_tables emits, resolve_resource returns what the addressed resource
\* returns, unless the database fails.
C5_ExposedUrisResolve ==
    \A c \in Calls :
        (/\ sOp[c] = "resolve_resource" /\ sPc[c] = "done"
         /\ sUri[c] \in ExposedUris
         /\ sOut[c] # DbError)
        => sOut[c] = Addressed(sUri[c])

-----------------------------------------------------------------------------
(* Client: the text of an LLM reply.  A reply is a sequence of tokens:     *)
(* "WS" is a run of whitespace, "FENCE" the three backticks of a fenced    *)
(* block, a tag the word json in some letter case, and every other token a *)
(* JSON document or a word that is no JSON.                                *)

JsonTags == {"json", "JSON"}

\* replies that are JSON objects, by the text of the object
ObjectDocs == {
    "{tool:null,answer:X}",
    "{tool:null}",
    "{answer:X}",
    "{tool:'',answer:X}",
    "{tool:get_table_schema,args:{name:orders}}",
    "{tool:get_table_schema,args:{table_name:orders}}",
    "{tool:get_table_schema,args:{name:orders,table_name:users}}",
    "{tool:query,args:{query:SELECT}}",
    "{tool:query,args:{sql:SELECT}}",
    "{tool:resolve_resource,args:{name:orders,uri:redshift://tables}}",
    "{tool:resolve_resource}",
    "{tool:drop_table,args:{name:orders}}",
    "{tool:query,args:{sql:SELECT},answer:X}" }

\* JSON that is no object: an array, a string, a number, null
NonObjectDocs == {"[1]", "'text'", "5", "null"}

\* text that is no JSON
Words == {"hello world"}

Absent == "<absent>"
Null == "<null>"

NoArgs == {<<Absent, Absent>>}

\* json.loads of an object document: the value of each field
\* (args is the set of key/value pairs of the "args" object, when there is one)
JsonObject(tool, args, answer) ==
    [tool |-> tool, hasArgs |-> args # NoArgs,
     args |-> args \ NoArgs, answer |-> answer]


JsonValue(d) ==
    CASE d = "{tool:null,answer:X}" -> JsonObject(Null, NoArgs, "X")
      [] d = "{tool:null}" -> JsonObject(Null, NoArgs, Absent)
      [] d = "{answer:X}" -> JsonObject(Absent, NoArgs, "X")
      [] d = "{tool:'',answer:X}" -> JsonObject("", NoArgs, "X")
      [] d = "{tool:get_table_schema,args:{name:orders}}" ->
            JsonObject("get_table_schema", {<<"name", "orders">>}, Absent)
      [] d = "{tool:get_table_schema,args:{table_name:orders}}" ->
            JsonObject("get_table_schema", {<<"table_name", "orders">>}, Absent)
      [] d = "{tool:get_table_schema,args:{name:orders,table_name:users}}" ->
            JsonObject("get_table_schema",
                       {<<"name", "orders">>, <<"table_name", "users">>}, Absent)
      [] d = "{tool:query,args:{query:SELECT}}" ->
            JsonObject("query", {<<"query", "SELECT">>}, Absent)
      [] d = "{tool:query,args:{sql:SELECT}}" ->
            JsonObject("query", {<<"sql", "SELECT">>}, Absent)
      [] d = "{tool:resolve_resource,args:{name:orders,uri:redshift://tables}}" ->
            JsonObject("resolve_resource",
                       {<<"name", "orders">>, <<"uri", "redshift://tables">>}, Absent)
      [] d = "{tool:resolve_resource}" -> JsonObject("resolve_resource", NoArgs, Absent)
      [] d = "{tool:drop_table,args:{name:orders}}" ->
            JsonObject("drop_table", {<<"name", "orders">>}, Absent)
      [] d = "{tool:query,args:{sql:SELECT},answer:X}" ->
            JsonObject("query", {<<"sql", "SELECT">>}, "X")

\* str.strip(): whitespace off both ends
RECURSIVE StripWs(_)
StripWs(r) ==
    IF r = <<>> THEN r
    ELSE IF Head(r) = "WS" THEN StripWs(Tail(r))
    ELSE IF r[Len(r)] = "WS" THEN StripWs(SubSeq(r, 1, Len(r) - 1))
    ELSE r

\* str.strip("`"): backticks off both ends
RECURSIVE StripTicks(_)
StripTicks(r) ==
    IF r = <<>> THEN r
    ELSE IF Head(r) = "FENCE" THEN StripTicks(Tail(r))
    ELSE IF r[Len(r)] = "FENCE" THEN StripTicks(SubSeq(r, 1, Len(r) - 1))
    ELSE r

\* raw_response.startswith("```"), tested on the reply as received
StartsWithFence(raw) == raw # <<>> /\ Head(raw) = "FENCE"

\* the clean-up of markdown code blocks
Sanitize(raw) ==
    IF StartsWithFence(raw)
    THEN LET inner == StripTicks(StripWs(raw))
         IN IF inner # <<>> /\ Head(inner) \in JsonTags
            THEN StripWs(Tail(inner))
            ELSE inner
    ELSE raw

\* json.loads: one document, whitespace around it allowed; "error" stands
\* for JSONDecodeError
JsonLoads(text) ==
    LET t == StripWs(text)
    IN IF Len(t) = 1 /\ t[1] \in ObjectDocs THEN [kind |-> "object", doc |-> t[1]]
       ELSE IF Len(t) = 1 /\ t[1] \in NonObjectDocs THEN [kind |-> "other", doc |-> t[1]]
       ELSE [kind |-> "error", doc |-> ""]

\* variant: the test is `"tool" in tool_call`
M_Truthy(v) == v # Absent

\* truth value of tool_call.get("tool")
Truthy(v) == v \notin {Absent, Null, ""}

-----------------------------------------------------------------------------
(* Client: process_query after the LLM replied *)

\* the tools the server registers, in registration order
ServerTools == <<"get_table_schema", "query", "resolve_resource">>

\* the parameters each registered tool requires
RequiredKeys(tool) ==
    CASE tool = "get_table_schema" -> {"table_name"}
      [] tool = "query" -> {"sql"}
      [] tool = "resolve_resource" -> {"uri"}
      [] OTHER -> {}

Keys(args) == {kv[1] : kv \in args}

Result(kind, tool, text) == [kind |-> kind, tool |-> tool, text |-> text]

NoResult == Result("none", "", "")
NoCall == [tool |-> "", args |-> {}]

\* the strings process_query returns
DirectAnswer(answer) == Result("answer", "", answer)
ToolResult(tool, text) == Result("tool_result", tool, text)
ToolError(tool) == Result("tool_error", tool, "Error executing tool")
ErrorResult(msg) == Result("error", "", msg)

\* what the chat loop prints when process_query raises
Raised == Result("raised", "", "")

\* the handler of json.JSONDecodeError
OnJSONDecodeError == ErrorResult("Invalid JSON in Gemini response")

\* variant: only JSONDecodeError is caught
M_OnException == Raised

\* the handler of every other Exception raised inside process_query
OnException == ErrorResult("Failed to process query")

\* the arguments handed to call_tool for the parsed tool_args
CallArgs(tool_name, tool_args) == tool_args

\* process_query from the reply text to the await of call_tool or the return
ProcessReply(raw) ==
    LET v == JsonLoads(Sanitize(raw))
    IN CASE v.kind = "error" -> [result |-> OnJSONDecodeError, call |-> NoCall]
         [] v.kind = "other" -> [result |-> OnException, call |-> NoCall]
         [] OTHER ->
            LET tool_call == JsonValue(v.doc)
            IN IF Truthy(tool_call.tool)
               THEN [result |-> NoResult,
                     call |-> [tool |-> tool_call.tool,
                               args |-> CallArgs(tool_call.tool,
                                   IF tool_call.hasArgs THEN tool_call.args ELSE {})]]
               ELSE [result |-> DirectAnswer(IF tool_call.answer = Absent
                                             THEN "No answer provided."
                                             ELSE tool_call.answer),
                     call |-> NoCall]

\* what call_tool can do with a call: return the tool's result, return an
\* empty result, return the server's error as the result, or raise
CallOutcomes(call) ==
    {"error_result", "raise"} \cup
    (IF /\ \E i \in 1..Len(ServerTools) : ServerTools[i] = call.tool
        /\ RequiredKeys(call.tool) \subseteq Keys(call.args)
     THEN {"result", "empty"} ELSE {})

AfterCall(call, outcome) ==
    CASE outcome = "result" -> ToolResult(call.tool, "tool output")
      [] outcome = "empty" -> ToolResult(call.tool, "No results returned from tool.")
      [] outcome = "error_result" -> ToolResult(call.tool, "error text of the server")
      [] OTHER -> ToolError(call.tool)

-----------------------------------------------------------------------------
(* Client: the grounding prompt of process_query.  A prompt is a sequence  *)
(* of tokens: "NL" is a line break, the fixed parts of the template are one *)
(* token each, names, keys, schemas, URIs and the query are tokens.        *)

\* tool.inputSchema["properties"] of a catalog entry, as the (key, schema)
\* pairs in the order of the dict; copy_rows stands for a tool of another
\* server with two parameters
InputSchema(tool) ==
    CASE tool = "get_table_schema" -> << <<"table_name", "{type: string}">> >>
      [] tool = "query" -> << <<"sql", "{type: string}">> >>
      [] tool = "resolve_resource" -> << <<"uri", "{type: string}">> >>
      [] tool = "copy_rows" -> << <<"target", "{type: string}">>,
                                  <<"source", "{type: string}">> >>
      [] OTHER -> <<>>

\* the resources the server registers, as list_resources reports their URIs
ServerResources == <<"redshift://schema", "redshift://tables">>

\* sep.join(parts) for texts that are token sequences
RECURSIVE Join(_, _)
Join(parts, sep) ==
    IF parts = <<>> THEN <<>>
    ELSE IF Len(parts) = 1 THEN parts[1]
    ELSE parts[1] \o sep \o Join(Tail(parts), sep)

\* f"{k}: {v}" for k, v in properties.items()
RenderParams(props) == [i \in 1..Len(props) |-> <<props[i][1], ": ", props[i][2]>>]

\* variant: the parameters are rendered in sorted key order
M_ToolLine(tool) ==
    LET props == InputSchema(tool)
        sorted == IF Len(props) = 2 /\ props[1][1] = "target"
                  THEN <<props[2], props[1]>> ELSE props
    IN <<"- ", tool, "(">> \o Join(RenderParams(sorted), <<", ">>) \o <<")">>

\* f'- {name}({", ".join(...)})' for one catalog entry
ToolLine(tool) ==
    <<"- ", tool, "(">> \o Join(RenderParams(InputSchema(tool)), <<", ">>) \o <<")">>

\* f'- "{uri}" (use with resolve_resource(uri="{uri}"))'
ResourceLine(uri) == <<"- \"", uri, "\" (use with resolve_resource(uri=\"", uri, "\"))">>

\* str.strip() of a prompt: line breaks off both ends
RECURSIVE StripNl(_)
StripNl(r) ==
    IF r = <<>> THEN r
    ELSE IF Head(r) = "NL" THEN StripNl(Tail(r))
    ELSE IF r[Len(r)] = "NL" THEN StripNl(SubSeq(r, 1, Len(r) - 1))
    ELSE r

\* the f-string of process_query and its .strip()
BuildPrompt(query, tools, resources) ==
    LET tool_descriptions ==
            Join([i \in 1..Len(tools) |-> ToolLine(tools[i])], <<"NL">>)
        resource_descriptions ==
            Join([i \in 1..Len(resources) |-> ResourceLine(resources[i])], <<"NL">>)
    IN StripNl(<<"NL", "You are a helpful assistant with access to the following tools:",
                 "NL", "NL">>
               \o tool_descriptions
               \o <<"NL", "NL", "You also have access to the following resources:", "NL">>
               \o resource_descriptions
               \o <<"NL", "NL", "To retrieve a resource ... respond ONLY in JSON ... If no tool is needed",
                    "NL", "NL", "User: ", query, "NL">>)

-----------------------------------------------------------------------------
(* Client state machine: chat_loop, connect_to_server, process_query.      *)
(* Every action is the code between two suspensions of the loop: an await   *)
(* on the server, the blocking call of the LLM, or input().                 *)

Commands == {"quit", "help", "tools", "reconnect"}

\* lines that are no command of the loop
FreeTexts == {"how many tables?", "exit"}

InitClient ==
    /\ is_connected = FALSE
    /\ session = 0
    /\ exit_stack = <<>>
    /\ available_tools = <<>>
    /\ cPc = "start"
    /\ turns = 0
    /\ connects = 0
    /\ turnInput = ""
    /\ turnConnected = FALSE
    /\ turnSession = 0
    /\ turnLlm = 0
    /\ turnRpc = <<>>
    /\ turnReply = <<>>
    /\ turnCall = NoCall
    /\ turnResult = NoResult
    /\ turnFaults = {}
    /\ turnResources = <<>>
    /\ turnPrompt = <<>>
    /\ initialized = {}

\* a new turn starts: nothing sent, nothing printed yet
BeginTurn(line) ==
    /\ turnInput' = line
    /\ turnConnected' = is_connected
    /\ turnSession' = session
    /\ turnLlm' = 0
    /\ turnRpc' = <<>>
    /\ turnReply' = <<>>
    /\ turnCall' = NoCall
    /\ turnFaults' = {}
    /\ turnResources' = <<>>
    /\ turnPrompt' = <<>>

ReadLine(line) ==
    /\ cPc = "prompt"
    /\ turns < MaxTurns
    /\ turns' = turns + 1
    /\ BeginTurn(line)

Sent(rpc) == turnRpc' = Append(turnRpc, rpc)

\* the first connect_to_server of chat_loop, up to the await on sse_client
StartupConnect ==
    /\ cPc = "start"
    /\ BeginTurn("<startup>")
    /\ connects' = connects + 1
    /\ cPc' = "connect_sse"
    /\ turnResult' = NoResult
    /\ UNCHANGED <<is_connected, session, exit_stack, available_tools, turns>>
    /\ UNCHANGED initialized
    /\ UNCHANGED serverVars

\* variant: the except branch leaves is_connected as it was
M_ConnectFailed ==
    /\ UNCHANGED is_connected
    /\ cPc' = "prompt"
    /\ turnResult' = Result("connect_failed", "", "")

\* the except branch of connect_to_server
ConnectFailed ==
    /\ is_connected' = FALSE
    /\ cPc' = "prompt"
    /\ turnResult' = Result("connect_failed", "", "")

\* enter_async_context(sse_client(server_url))
ConnectSse(ok) ==
    /\ cPc = "connect_sse"
    /\ Sent("sse_client")
    /\ IF ok
       THEN /\ exit_stack' = Append(exit_stack, [kind |-> "sse", id |-> connects])
            /\ cPc' = "connect_session"
            /\ UNCHANGED <<is_connected, turnResult>>
       ELSE /\ ConnectFailed
            /\ UNCHANGED exit_stack
    /\ UNCHANGED <<session, available_tools, turns, connects, turnInput,
                   turnConnected, turnSession, turnLlm, turnReply, turnCall>>
    /\ UNCHANGED <<initialized, turnFaults, turnResources, turnPrompt>>
    /\ UNCHANGED serverVars

\* self.session = enter_async_context(ClientSession(recv, send))
ConnectSession(ok) ==
    /\ cPc = "connect_session"
    /\ IF ok
       THEN /\ exit_stack' = Append(exit_stack, [kind |-> "session", id |-> connects])
            /\ session' = connects
            /\ cPc' = "connect_init"
            /\ UNCHANGED <<is_connected, turnResult>>
       ELSE /\ ConnectFailed
            /\ UNCHANGED <<exit_stack, session>>
    /\ UNCHANGED <<available_tools, turns, connects, turnInput, turnConnected, turnSession,
                   turnLlm, turnRpc, turnReply, turnCall>>
    /\ UNCHANGED <<initialized, turnFaults, turnResources, turnPrompt>>
    /\ UNCHANGED serverVars

\* await self.session.initialize()
ConnectInit(ok) ==
    /\ cPc = "connect_init"
    /\ Sent("initialize")
    /\ IF ok
       THEN /\ cPc' = "connect_tools"
            /\ UNCHANGED <<is_connected, turnResult>>
       ELSE ConnectFailed
    /\ UNCHANGED <<session, exit_stack, available_tools, turns, connects,
                   turnInput, turnConnected, turnSession, turnLlm, turnReply, turnCall>>
    /\ initialized' = IF ok THEN initialized \cup {session} ELSE initialized
    /\ UNCHANGED <<turnFaults, turnResources, turnPrompt>>
    /\ UNCHANGED serverVars

\* refresh_available_tools: a failed list_tools is logged and leaves the
\* catalog as it was
RefreshTools(ok) ==
    /\ Sent("list_tools")
    /\ available_tools' = IF ok THEN ServerTools ELSE available_tools
    /\ turnFaults' = IF ok THEN turnFaults ELSE turnFaults \cup {"list_tools"}

\* await self.refresh_available_tools(); self.is_connected = True
ConnectTools(ok) ==
    /\ cPc = "connect_tools"
    /\ RefreshTools(ok)
    /\ is_connected' = TRUE
    /\ cPc' = "prompt"
    /\ turnResult' = Result("connected", "", "")
    /\ UNCHANGED <<session, exit_stack, turns, connects, turnInput,
                   turnConnected, turnSession, turnLlm, turnReply, turnCall>>
    /\ UNCHANGED <<initialized, turnResources, turnPrompt>>
    /\ UNCHANGED serverVars

InputEmpty ==
    /\ ReadLine("")
    /\ turnResult' = NoResult
    /\ UNCHANGED <<is_connected, session, exit_stack, available_tools, cPc, connects>>
    /\ UNCHANGED initialized
    /\ UNCHANGED serverVars

InputQuit ==
    /\ ReadLine("quit")
    /\ cPc' = "done"
    /\ turnResult' = Result("goodbye", "", "")
    /\ UNCHANGED <<is_connected, session, exit_stack, available_tools, connects>>
    /\ UNCHANGED initialized
    /\ UNCHANGED serverVars

InputHelp ==
    /\ ReadLine("help")
    /\ turnResult' = Result("help", "", "")
    /\ UNCHANGED <<is_connected, session, exit_stack, available_tools, cPc, connects>>
    /\ UNCHANGED initialized
    /\ UNCHANGED serverVars

NotConnected == Result("not_connected", "", "Not connected to server. Use 'reconnect' first.")

InputTools ==
    /\ ReadLine("tools")
    /\ IF ~is_connected
       THEN turnResult' = NotConnected /\ UNCHANGED cPc
       ELSE turnResult' = NoResult /\ cPc' = "tools_refresh"
    /\ UNCHANGED <<is_connected, session, exit_stack, available_tools, connects>>
    /\ UNCHANGED initialized
    /\ UNCHANGED serverVars

\* the `tools` command from the return of refresh_available_tools
ToolsRefresh(ok) ==
    /\ cPc = "tools_refresh"
    /\ RefreshTools(ok)
    /\ cPc' = "prompt"
    /\ turnResult' = Result("tools", "", "")
    /\ UNCHANGED <<is_connected, session, exit_stack, turns, connects, turnInput,
                   turnConnected, turnSession, turnLlm, turnReply, turnCall>>
    /\ UNCHANGED <<initialized, turnResources, turnPrompt>>
    /\ UNCHANGED serverVars

InputReconnect ==
    /\ connects < MaxConnects
    /\ ReadLine("reconnect")
    /\ connects' = connects + 1
    /\ cPc' = "connect_sse"
    /\ turnResult' = NoResult
    /\ UNCHANGED <<is_connected, session, exit_stack, available_tools>>
    /\ UNCHANGED initialized
    /\ UNCHANGED serverVars

\* variant: the loop does not test is_connected before process_query
M_QueryAllowed == TRUE

\* the loop's guard before process_query
QueryAllowed == is_connected

\* a free-text line: the loop's guard, then process_query up to its first await
InputQuery(line) ==
    /\ ReadLine(line)
    /\ IF ~QueryAllowed
       THEN turnResult' = NotConnected /\ UNCHANGED cPc
       ELSE IF ~is_connected \/ session = 0
       THEN turnResult' = Raised /\ UNCHANGED cPc
       ELSE /\ turnResult' = NoResult
            /\ cPc' = IF available_tools = <<>> THEN "pq_tools" ELSE "pq_resources"
    /\ UNCHANGED <<is_connected, session, exit_stack, available_tools, connects>>
    /\ UNCHANGED initialized
    /\ UNCHANGED serverVars

\* process_query: await self.refresh_available_tools()
PqTools(ok) ==
    /\ cPc = "pq_tools"
    /\ RefreshTools(ok)
    /\ cPc' = "pq_resources"
    /\ UNCHANGED <<is_connected, session, exit_stack, turns, connects, turnInput,
                   turnConnected, turnSession, turnLlm, turnReply, turnCall, turnResult>>
    /\ UNCHANGED <<initialized, turnResources, turnPrompt>>
    /\ UNCHANGED serverVars

\* process_query: resources = await self.refresh_available_resources(), a
\* failed list_resources gives the empty list; then the prompt is built
PqResourcesGot(ok, uris) ==
    /\ cPc = "pq_resources"
    /\ Sent("list_resources")
    /\ turnResources' = IF ok THEN uris ELSE <<>>
    /\ turnPrompt' = BuildPrompt(turnInput, available_tools, turnResources')
    /\ turnFaults' = IF ok THEN turnFaults ELSE turnFaults \cup {"list_resources"}
    /\ cPc' = "pq_llm"
    /\ UNCHANGED <<is_connected, session, exit_stack, available_tools, turns,
                   connects, turnInput, turnConnected, turnSession, turnLlm, turnReply,
                   turnCall, turnResult, initialized>>
    /\ UNCHANGED serverVars

\* against this repository's server
PqResources(ok) == PqResourcesGot(ok, ServerResources)

\* process_query: generate_content raised
PqLlmFails ==
    /\ cPc = "pq_llm"
    /\ turnLlm' = turnLlm + 1
    /\ turnResult' = OnException
    /\ cPc' = "prompt"
    /\ UNCHANGED <<is_connected, session, exit_stack, available_tools, turns,
                   connects, turnInput, turnConnected, turnSession, turnRpc, turnReply, turnCall>>
    /\ turnFaults' = turnFaults \cup {"generate_content"}
    /\ UNCHANGED <<initialized, turnResources, turnPrompt>>
    /\ UNCHANGED serverVars

\* process_query: generate_content returned raw; clean-up, json.loads and
\* the branch on the tool field, up to the await of call_tool or the return
PqLlm(raw) ==
    /\ cPc = "pq_llm"
    /\ turnLlm' = turnLlm + 1
    /\ turnReply' = raw
    /\ LET p == ProcessReply(raw)
       IN IF p.call = NoCall
          THEN /\ turnResult' = p.result
               /\ cPc' = "prompt"
               /\ UNCHANGED <<turnCall, turnRpc>>
          ELSE /\ turnCall' = p.call
               /\ Sent("call_tool")
               /\ cPc' = "pq_call"
               /\ UNCHANGED turnResult
    /\ UNCHANGED <<is_connected, session, exit_stack, available_tools, turns,
                   connects, turnInput, turnConnected, turnSession>>
    /\ turnFaults' = IF JsonLoads(Sanitize(raw)).kind = "object"
                     THEN turnFaults ELSE turnFaults \cup {"reply"}
    /\ UNCHANGED <<initialized, turnResources, turnPrompt>>
    /\ UNCHANGED serverVars

\* process_query from the return of call_tool
PqCall(outcome) ==
    /\ cPc = "pq_call"
    /\ outcome \in CallOutcomes(turnCall)
    /\ turnResult' = AfterCall(turnCall, outcome)
    /\ cPc' = "prompt"
    /\ UNCHANGED <<is_connected, session, exit_stack, available_tools, turns,
                   connects, turnInput, turnConnected, turnSession, turnLlm, turnRpc,
                   turnReply, turnCall>>
    /\ turnFaults' = IF outcome \in {"result", "empty"}
                     THEN turnFaults ELSE turnFaults \cup {"call_tool"}
    /\ UNCHANGED <<initialized, turnResources, turnPrompt>>
    /\ UNCHANGED serverVars

\* where the loop is suspended in an await on the server
AwaitPoints == {"connect_sse", "connect_session", "connect_init", "connect_tools",
                "tools_refresh", "pq_tools", "pq_resources", "pq_call"}

\* what the chat loop prints when it catches KeyboardInterrupt
Cancelled == Result("cancelled", "", "Operation cancelled. Type 'quit' to exit.")

\* the chat loop was left by an exception it does not catch
Terminated == Result("terminated", "", "")

\* Ctrl-C while a turn waits.  In an await the coroutine is not running: the
\* interrupt reaches it as asyncio.CancelledError, a BaseException that no
\* handler of connect_to_server, process_query or chat_loop catches, so the
\* loop is left.  In the blocking generate_content call the interrupt is
\* either raised in place as KeyboardInterrupt, which only chat_loop catches,
\* or turned into a cancellation of the task by the event loop's runner (the
\* task then ends at its next await; the model ends it at once).
Interrupt(how) ==
    /\ cPc \in AwaitPoints \cup {"pq_llm"}
    /\ how = "KeyboardInterrupt" => cPc = "pq_llm"
    /\ IF how = "KeyboardInterrupt"
       THEN cPc' = "prompt" /\ turnResult' = Cancelled
       ELSE cPc' = "done" /\ turnResult' = Terminated
    /\ UNCHANGED <<is_connected, session, exit_stack, available_tools, turns,
                   connects, turnInput, turnConnected, turnSession, turnLlm,
                   turnRpc, turnReply, turnCall, turnFaults, turnResources,
                   turnPrompt, initialized>>
    /\ UNCHANGED serverVars

\* main: the finally block after chat_loop was left
MainFinally ==
    /\ cPc = "done"
    /\ cPc' = "exited"
    /\ exit_stack' = <<>>
    /\ UNCHANGED <<is_connected, session, available_tools, turns, connects,
                   turnInput, turnConnected, turnSession, turnLlm, turnRpc,
                   turnReply, turnCall, turnResult, turnFaults, turnResources,
                   turnPrompt, initialized>>
    /\ UNCHANGED serverVars

\* cleanup(), called between two operations of the client: aclose() unwinds
\* every context of the stack; when one of them raises, the exception is
\* logged and is_connected keeps its value
Cleanup(ok) ==
    /\ cPc = "prompt"
    /\ BeginTurn("<cleanup>")
    /\ exit_stack' = <<>>
    /\ is_connected' = IF ok THEN FALSE ELSE is_connected
    /\ turnResult' = NoResult
    /\ UNCHANGED <<session, available_tools, cPc, turns, connects, initialized>>
    /\ UNCHANGED serverVars

\* the replies the LLM gives in the client specification: every document
\* bare, and in fenced blocks
Fenced(d) ==
    { <<"FENCE", "json", "WS", d, "WS", "FENCE">>,
      <<"FENCE", "JSON", "WS", d, "WS", "FENCE", "WS">>,
      <<"FENCE", "WS", d, "WS", "FENCE">>,
      <<"WS", "FENCE", "json", "WS", d, "WS", "FENCE">> }

ClientReplies ==
    {<<d>> : d \in ObjectDocs \cup NonObjectDocs \cup Words}
        \cup UNION {Fenced(d) : d \in {"{tool:null,answer:X}",
                                       "{tool:get_table_schema,args:{name:orders}}",
                                       "hello world"}}

NextClient ==
    \/ StartupConnect
    \/ \E ok \in BOOLEAN : ConnectSse(ok)
    \/ \E ok \in BOOLEAN : ConnectSession(ok)
    \/ \E ok \in BOOLEAN : ConnectInit(ok)
    \/ \E ok \in BOOLEAN : ConnectTools(ok)
    \/ InputEmpty
    \/ InputQuit
    \/ InputHelp
    \/ InputTools
    \/ \E ok \in BOOLEAN : ToolsRefresh(ok)
    \/ InputReconnect
    \/ \E line \in FreeTexts : InputQuery(line)
    \/ \E ok \in BOOLEAN : PqTools(ok)
    \/ \E ok \in BOOLEAN : PqResources(ok)
    \/ PqLlmFails
    \/ \E raw \in ClientReplies : PqLlm(raw)
    \/ \E outcome \in {"result", "empty", "error_result", "raise"} : PqCall(outcome)
    \/ \E how \in {"KeyboardInterrupt", "CancelledError"} : Interrupt(how)
    \/ MainFinally

\* the client object under a caller that also calls cleanup()
NextLifecycle ==
    \/ NextClient
    \/ \E ok \in BOOLEAN : Cleanup(ok)

Init ==
    /\ InitServer
    /\ InitClient

\* the server under concurrent requests
Spec == Init /\ [][Next]_vars

SpecResolve == Init /\ [][NextResolve]_vars

\* what a start of the server may find: arguments, command line, environment
ArgvInputs == {<<"server.py">>, <<"server.py", DatabaseUrl>>,
               <<"server.py", DatabaseUrl, "cli_schema">>}

AllStartupInputs ==
    {StartupInputs(url, schema, argv, envUrl, envSchema) :
        url \in {None, DatabaseUrl}, schema \in {None, "", "param_schema"},
        argv \in ArgvInputs, envUrl \in {None, DatabaseUrl},
        envSchema \in {None, "env_schema"}}

\* what current_schema() may answer
SchemaAnswers == {DefaultSchema, "param_schema", "cli_schema", "env_schema", "public"}

\* before create_server: schema_name is the parameter, no connection yet
InitStartup ==
    /\ startup \in {[pc |-> "new", in |-> in] : in \in AllStartupInputs}
    /\ schema_name = startup.in.schema_name
    /\ startLog = <<>>
    /\ txn = "idle"
    /\ InitRequests
    /\ InitClient

\* the start of the server, then requests for the schema resource
NextStartup ==
    \/ \E connected \in BOOLEAN, effective \in SchemaAnswers :
            CreateServer(connected, effective)
    \/ \E c \in Calls : ListSchema(c)

\* create_server over every combination of its inputs
SpecStartup == InitStartup /\ [][NextStartup]_vars

\* the client's chat loop
SpecClient == Init /\ [][NextClient]_vars

SpecLifecycle == Init /\ [][NextLifecycle]_vars

\* one query turn of a connected client, over every reply text of up to
\* MaxReplyLen tokens
ReplyTokens == {"WS", "FENCE", "json", "JSON", "{tool:null,answer:X}",
                "{tool:get_table_schema,args:{name:orders}}", "[1]", "null",
                "hello world"}

AllReplies == SeqsUpTo(ReplyTokens, MaxReplyLen)

InitParse ==
    /\ InitServer
    /\ is_connected = TRUE
    /\ session = 1
    /\ exit_stack = <<[kind |-> "sse", id |-> 1], [kind |-> "session", id |-> 1]>>
    /\ available_tools = ServerTools
    /\ cPc = "prompt"
    /\ turns = 0
    /\ connects = 1
    /\ turnInput = "<startup>"
    /\ turnConnected = FALSE
    /\ turnSession = 0
    /\ turnLlm = 0
    /\ turnRpc = <<"sse_client", "initialize", "list_tools">>
    /\ turnReply = <<>>
    /\ turnCall = NoCall
    /\ turnResult = Result("connected", "", "")
    /\ turnFaults = {}
    /\ turnResources = <<>>
    /\ turnPrompt = <<>>
    /\ initialized = {1}

NextParse ==
    \/ turns = 0 /\ InputQuery("how many tables?")
    \/ \E ok \in BOOLEAN : PqResources(ok)
    \/ cPc = "pq_llm" /\ \E raw \in AllReplies : PqLlm(raw)
    \/ \E outcome \in {"result", "empty", "error_result", "raise"} : PqCall(outcome)

SpecParse == InitParse /\ [][NextParse]_vars

\* catalogs a server may report: tools of this server, a tool with two
\* parameters and one with none
ToolPool == {"get_table_schema", "query", "copy_rows", "ping"}

UriPool == {"redshift://schema", "redshift://tables"}

\* a connected client at its prompt, with any catalog of up to MaxTools tools
InitPrompt ==
    /\ InitServer
    /\ is_connected = TRUE
    /\ session = 1
    /\ exit_stack = <<[kind |-> "sse", id |-> 1], [kind |-> "session", id |-> 1]>>
    /\ available_tools \in SeqsUpTo(ToolPool, MaxTools)
    /\ cPc = "prompt"
    /\ turns = 0
    /\ connects = 1
    /\ turnInput = "<startup>"
    /\ turnConnected = FALSE
    /\ turnSession = 0
    /\ turnLlm = 0
    /\ turnRpc = <<"sse_client", "initialize", "list_tools">>
    /\ turnReply = <<>>
    /\ turnCall = NoCall
    /\ turnResult = Result("connected", "", "")
    /\ turnFaults = IF available_tools = <<>> THEN {"list_tools"} ELSE {}
    /\ turnResources = <<>>
    /\ turnPrompt = <<>>
    /\ initialized = {1}

\* one query turn up to the call of the LLM, over every resource list of up
\* to MaxResources URIs
NextPrompt ==
    \/ turns = 0 /\ \E line \in FreeTexts : InputQuery(line)
    \/ \E ok \in BOOLEAN : PqTools(ok)
    \/ cPc = "pq_resources" /\
            \E ok \in BOOLEAN, uris \in SeqsUpTo(UriPool, MaxResources) :
                PqResourcesGot(ok, uris)

SpecPrompt == InitPrompt /\ [][NextPrompt]_vars

-----------------------------------------------------------------------------
(* Properties of the client *)

\* the LLM has replied in this turn and the reply has been dealt with
Replied == turnLlm = 1 /\ turnReply # <<>> /\ cPc # "pq_llm"

AllWs(r, lo, hi) == \A k \in lo..hi : r[k] = "WS"

\* token i of r is a document with only whitespace around it
BareAt(r, i) == AllWs(r, 1, i - 1) /\ AllWs(r, i + 1, Len(r))

\* token i of r is a document inside a fenced block, with or without a json
\* tag after the opening fence; whitespace may surround the block and the
\* document
FencedAt(r, i) ==
    \E f \in 1..(i - 1), g \in (i + 1)..Len(r) :
        /\ r[f] = "FENCE" /\ r[g] = "FENCE"
        /\ AllWs(r, 1, f - 1)
        /\ AllWs(r, g + 1, Len(r))
        /\ AllWs(r, i + 1, g - 1)
        /\ \/ AllWs(r, f + 1, i - 1)
           \/ f + 1 < i /\ r[f + 1] \in JsonTags /\ AllWs(r, f + 2, i - 1)

\* the command of a JSON object, as read from its fields
CommandOf(d) ==
    LET o == JsonValue(d)
    IN IF Truthy(o.tool)
       THEN [call |-> [tool |-> o.tool, args |-> IF o.hasArgs THEN o.args ELSE {}],
             answer |-> Absent]
       ELSE [call |-> NoCall,
             answer |-> IF o.answer = Absent THEN "No answer provided." ELSE o.answer]

\* C6: a reply that is a JSON object, bare or in a fenced block with or
\* without a json tag, whitespace around it or not, yields the command of the
\* object: the tool invocation when `tool` is truthy, else the direct answer.
C6_FencedReplyParsesAsBare ==
    Replied =>
        \A i \in 1..Len(turnReply) :
            (turnReply[i] \in ObjectDocs /\ (BareAt(turnReply, i) \/ FencedAt(turnReply, i)))
            => LET cmd == CommandOf(turnReply[i])
               IN /\ turnCall = cmd.call
                  /\ cmd.call = NoCall => turnResult = DirectAnswer(cmd.answer)

\* C7: a reply that holds no JSON object (text that is no JSON, or JSON that
\* is an array, a string, a number or null) ends the turn with an
\* error-marked string returned by process_query: nothing is raised, no tool
\* is called, the LLM is asked once.
C7_ParserTotal ==
    /\ turnLlm <= 1
    /\ (Replied /\ \A i \in 1..Len(turnReply) : turnReply[i] \notin ObjectDocs) =>
        /\ cPc = "prompt"
        /\ turnResult.kind = "error"
        /\ turnCall = NoCall
        /\ \A k \in 1..Len(turnRpc) : turnRpc[k] # "call_tool"

\* the reply [1], valid JSON that is no object, was answered with the error
C7_Witness ==
    /\ Replied
    /\ turnReply = <<"FENCE", "json", "WS", "[1]", "FENCE">>
    /\ turnResult = ErrorResult("Failed to process query")

ValueOf(args, key) == (CHOOSE kv \in args : kv[1] = key)[2]

Rename(args, from, to) ==
    {kv \in args : kv[1] # from} \cup {<<to, ValueOf(args, from)>>}

\* the repair table of the argument normalizer
Repaired(tool, args) ==
    IF tool = "get_table_schema" /\ "name" \in Keys(args) /\ "table_name" \notin Keys(args)
    THEN Rename(args, "name", "table_name")
    ELSE IF tool = "query" /\ "query" \in Keys(args) /\ "sql" \notin Keys(args)
    THEN Rename(args, "query", "sql")
    ELSE args

\* C8: the arguments given to call_tool are the parsed arguments after the
\* repair table: name -> table_name for get_table_schema, query -> sql for
\* query, when the canonical key is absent; unchanged otherwise.
C8_ArgumentsRepaired ==
    (Replied /\ turnCall # NoCall) =>
        \A d \in ObjectDocs : turnReply = <<d>> =>
            turnCall = [tool |-> JsonValue(d).tool,
                        args |-> Repaired(JsonValue(d).tool, CommandOf(d).call.args)]

\* C9: a parsed reply with a falsy `tool` ends the turn with exactly its
\* `answer` (the placeholder when it has none) and without a call_tool; a
\* parsed reply with a truthy `tool` leads to one call_tool of that tool and
\* never to a direct answer, whatever its `answer` field holds.
C9_AnswerOrInvocation ==
    /\ ~(turnResult.kind = "answer" /\ turnCall # NoCall)
    /\ (Replied /\ JsonLoads(Sanitize(turnReply)).kind = "object") =>
        LET o == JsonValue(JsonLoads(Sanitize(turnReply)).doc)
            calls == {k \in 1..Len(turnRpc) : turnRpc[k] = "call_tool"}
        IN IF o.tool \in {Absent, Null, ""}
           THEN /\ cPc = "prompt"
                /\ turnResult = Result("answer", "",
                        IF o.answer = Absent THEN "No answer provided." ELSE o.answer)
                /\ turnCall = NoCall
                /\ calls = {}
           ELSE /\ turnCall.tool = o.tool
                /\ Cardinality(calls) = 1
                /\ turnResult.kind # "answer"

\* {"tool": null, "answer": "X"} was answered with X
C9_Witness ==
    /\ Replied
    /\ turnReply = <<"{tool:null,answer:X}">>
    /\ turnResult = Result("answer", "", "X")
    /\ turnRpc = <<"list_resources">>

\* a turn that was read while disconnected and is a query or `tools`
DisconnectedTurn == ~turnConnected /\ turnInput \in FreeTexts \cup {"tools"}

\* C10: a free-text query or `tools` read while is_connected is false is
\* answered at once with the not-connected message, with no LLM call and no
\* request to the server; is_connected turns from false to true only in the
\* last step of a connect_to_server (at startup or on `reconnect`) whose
\* transport, session and initialize succeeded.
C10_FailFastWhileDisconnected ==
    /\ [](DisconnectedTurn =>
            /\ turnLlm = 0
            /\ turnRpc = <<>>
            /\ turnCall = NoCall
            /\ turnResult = NotConnected
            /\ cPc = "prompt")
    /\ [][(~is_connected /\ is_connected') =>
            /\ cPc = "connect_tools"
            /\ turnInput \in {"<startup>", "reconnect"}
            /\ turnRpc' = <<"sse_client", "initialize", "list_tools">>
            /\ session' = connects]_vars

\* a query typed after the startup connect failed
C10_Witness ==
    /\ DisconnectedTurn
    /\ turnInput = "how many tables?"
    /\ turnResult = NotConnected
    /\ connects = 1

\* a query turn that was processed has ended
QueryTurnEnded == cPc = "prompt" /\ turnInput \in FreeTexts /\ turnConnected

\* the result is an error-marked line: the red `Error:` or `[Error]` prefix
Marked(r) == r.kind \in {"error", "tool_error"}

\* C11: a query turn in which a step failed (listing the tools or the
\* resources, the LLM call, a malformed reply, the remote tool call) ends
\* with an error-marked result; no step of a query turn changes is_connected
\* or the session handle; and the query read after such a turn is processed,
\* on the same session.
C11_TurnFailureIsMarkedAndSurvived ==
    /\ []((QueryTurnEnded /\ turnFaults # {}) =>
            /\ Marked(turnResult)
            /\ is_connected /\ session # 0)
    /\ [][(turnInput' \in FreeTexts /\ turnConnected') =>
            /\ is_connected' = is_connected
            /\ session' = session
            /\ (QueryTurnEnded /\ turnFaults # {} /\ turns' = turns + 1) =>
                    cPc' \in {"pq_tools", "pq_resources"}]_vars

\* the contexts of one kind that were entered and not closed
OpenContexts(kind) == {i \in 1..Len(exit_stack) : exit_stack[i].kind = kind}

\* where the client is about to use self.session for a request
SessionOps == {"tools_refresh", "pq_tools", "pq_resources", "pq_call"}

\* C12: between two commands at most one transport connection and one
\* server session opened by the client are open, however many connects and
\* reconnects came before; and every request of the client goes to the
\* session of the latest connect attempt, never to a replaced one.
C12_ReconnectTearsDown ==
    /\ cPc = "prompt" =>
        /\ Cardinality(OpenContexts("sse")) <= 1
        /\ Cardinality(OpenContexts("session")) <= 1
    /\ cPc \in SessionOps => session = connects

\* connect_to_server has just returned True
ConnectSucceeded ==
    /\ cPc = "prompt"
    /\ turnInput \in {"<startup>", "reconnect"}
    /\ turnResult = Result("connected", "", "")

\* C13: when connect_to_server has returned True, is_connected is set and
\* the catalog is the tool list that list_tools of the new session returned
\* in this connect: never empty because the fetch failed, never the catalog
\* of the session before.
C13_CatalogFetchedOnConnect ==
    ConnectSucceeded =>
        /\ is_connected
        /\ session = connects
        /\ "list_tools" \notin turnFaults
        /\ available_tools = ServerTools

\* the turn was ended by an interrupt
Interrupted == turnResult \in {Cancelled, Terminated}

\* C14: after an interrupt in a query turn or in a reconnect, at whichever
\* point the turn was waiting, the loop is at its prompt again, ready for the
\* next input, and is_connected and the session handle are what they were
\* when the turn started.
C14_InterruptAbortsTurnOnly ==
    (Interrupted /\ turnInput \in FreeTexts \cup {"reconnect"}) =>
        /\ cPc = "prompt"
        /\ is_connected = turnConnected
        /\ session = turnSession

\* the requests of a turn that carry a query: the resource listing for the
\* prompt and the tool call
QueryRpcs == {"list_resources", "call_tool"}

\* C15: help, tools, reconnect, quit and exit are commands: the line is not
\* given to the LLM and no query request goes to the server; after quit and
\* after exit the loop has ended, connected or not; after help, tools and
\* reconnect (unless an interrupt ended the turn) the loop handles the
\* command and is at its prompt again.
C15_LiteralCommands ==
    /\ turnInput \in {"help", "tools", "reconnect", "quit", "exit"} =>
        /\ turnLlm = 0
        /\ turnPrompt = <<>>
        /\ \A k \in 1..Len(turnRpc) : turnRpc[k] \notin QueryRpcs
    /\ turnInput \in {"quit", "exit"} => cPc \in {"done", "exited"}
    /\ (turnInput = "help" /\ ~Interrupted) => cPc = "prompt"
    /\ (turnInput = "tools" /\ ~Interrupted) => cPc \in {"prompt", "tools_refresh"}
    /\ (turnInput = "reconnect" /\ ~Interrupted) =>
            cPc \in {"prompt", "connect_sse", "connect_session", "connect_init",
                     "connect_tools"}

\* C16: a parsed tool invocation leads to exactly one call_tool with the
\* parsed name, whether the catalog holds the name or not; when the call has
\* returned, a failed call (an error raised or an error result) has given
\* the error-marked string that names the tool, and only a call that did not
\* fail is shown as a tool result.
C16_RemoteFailureIsMarked ==
    turnCall # NoCall =>
        /\ Cardinality({k \in 1..Len(turnRpc) : turnRpc[k] = "call_tool"}) = 1
        /\ (cPc = "prompt" /\ ~Interrupted) =>
            IF "call_tool" \in turnFaults
            THEN turnResult = ToolError(turnCall.tool)
            ELSE turnResult.kind = "tool_result" /\ turnResult.tool = turnCall.tool

\* C20: between two operations (connect, reconnect, tools, query, cleanup),
\* is_connected implies that the session handle is set and is a session
\* whose initialize() returned; and a connect attempt that failed, at the
\* transport, the session or initialize, has left is_connected false, also
\* when the client was connected before it.
C20_ConnectedImpliesInitialized ==
    /\ (cPc = "prompt" /\ is_connected) => (session # 0 /\ session \in initialized)
    /\ (cPc = "prompt" /\ turnResult = Result("connect_failed", "", "")) =>
            ~is_connected

\* a reconnect of a connected client failed at initialize()
C20_Witness ==
    /\ cPc = "prompt"
    /\ turnInput = "reconnect"
    /\ turnConnected
    /\ turnResult = Result("connect_failed", "", "")
    /\ session = connects /\ session \notin initialized
    /\ ~is_connected

\* the positions of the prompt where a tool line, a resource line starts
ToolStarts == {i \in 1..Len(turnPrompt) : turnPrompt[i] = "- "}

ResourceStarts == {i \in 1..Len(turnPrompt) : turnPrompt[i] = "- \""}

\* the k-th smallest element of a set of positions
Nth(S, k) == CHOOSE i \in S : Cardinality({j \in S : j < i}) = k - 1

\* at position i starts a line, and the line reads - tool(key: ..., key: ...)
\* with the keys of the tool's schema in their order
ToolLineAt(i, tool) ==
    LET P == turnPrompt
        props == InputSchema(tool)
        q == Len(props)
        close == IF q = 0 THEN i + 3 ELSE i + 2 + 4 * q
    IN /\ P[i - 1] = "NL"
       /\ close + 1 <= Len(P)
       /\ P[i + 1] = tool
       /\ P[i + 2] = "("
       /\ \A j \in 1..q :
            /\ P[i + 4 * j - 1] = props[j][1]
            /\ P[i + 4 * j] = ": "
            /\ j < q => P[i + 4 * j + 2] = ", "
       /\ P[close] = ")"
       /\ P[close + 1] = "NL"

\* C17: the prompt built for a query holds exactly one tool line per entry of
\* the catalog, in catalog order, each of the form name(key: ..., key: ...)
\* with the keys in the order of the tool's parameter schema; after the tool
\* lines comes the resource list, one line per fetched URI in order; the
\* prompt ends with the user's query verbatim; and is_connected, the session
\* handle and the catalog are the ones the prompt was built from.
C17_PromptRendersCatalog ==
    cPc = "pq_llm" =>
        LET P == turnPrompt
            n == Len(available_tools)
            m == Len(turnResources)
        IN /\ Cardinality(ToolStarts) = n
           /\ \A k \in 1..n : ToolLineAt(Nth(ToolStarts, k), available_tools[k])
           /\ Cardinality(ResourceStarts) = m
           /\ \A k \in 1..m :
                /\ P[Nth(ResourceStarts, k) + 1] = turnResources[k]
                /\ \A i \in ToolStarts : i < Nth(ResourceStarts, k)
           /\ Len(P) >= 2
           /\ P[Len(P)] = turnInput
           /\ P[Len(P) - 1] = "User: "
           /\ is_connected = turnConnected
           /\ session = turnSession

\* the prompt for the catalog [query, copy_rows] and two resources
C17_Witness ==
    /\ cPc = "pq_llm"
    /\ available_tools = <<"query", "copy_rows">>
    /\ turnResources = <<"redshift://tables", "redshift://schema">>
    /\ turnInput = "how many tables?"
    /\ ToolStarts = {4, 12}
    /\ Len(turnPrompt) = 44

\* C18: every request that runs SQL issues SET search_path TO <active
\* schema> as its first statement; before any further SQL it asks the
\* connection for its effective schema (and corrects the search path when
\* the answer differs); and the active schema is the one chosen at startup,
\* whatever requests were served since.
C18_SearchPathPinnedAndVerified ==
    /\ \A c \in Calls :
        LET own == OwnLog(c)
        IN own # <<>> =>
            /\ own[1].text = "SET search_path TO"
            /\ own[1].arg = ActiveSchema
            /\ (Len(own) >= 2 /\ own[2].text # "ROLLBACK") =>
                    own[2].text = SelectCurrentSchema.text
    /\ schema_name = ChooseSchema(startup.in)

\* the schema the precedence rule selects
SchemaByPrecedence(in) ==
    IF in.schema_name \notin {None, ""} THEN in.schema_name
    ELSE IF Len(in.argv) > 2 THEN in.argv[3]
    ELSE IF in.DEFAULT_SCHEMA # None THEN in.DEFAULT_SCHEMA
    ELSE DefaultSchema

\* C19: once create_server has chosen it, the active schema is the
\* schema_name parameter when given, else sys.argv[2] when present, else the
\* environment variable DEFAULT_SCHEMA when set, else the default literal.
C19_SchemaPrecedence ==
    startup.pc = "serving" => schema_name = SchemaByPrecedence(startup.in)

====
